---- MODULE Spec2Model ----
(***************************************************************************)
(* Orchestration logic of the torchvision classification drivers:          *)
(*   train.py      main (argument checks, resume, test-only, epoch loop,   *)
(*                 evaluation cadence, checkpoint saving), train_one_epoch *)
(*                 (step limit), lr_vec_fcn / adjust_learning_rate,        *)
(*                 load_data (dataset cache shared by the ranks);          *)
(*   inference.py  main and HPUModel.__init__ (checkpoint fallback).       *)
(* Tensors, kernels and collectives are external; model and optimizer      *)
(* state are represented by the number of updates applied to them.         *)
(***************************************************************************)
EXTENDS Integers, Sequences, FiniteSets, TLC

\* ------------------------------------------------------------------ bounds
MaxEpochs == 3
MaxBetween == 2
MaxStart == 1
NumBatches == 2
NumRanks == 2

VARIABLES
    args,                 \* argparse namespace of the current run of train.main
    is_main_process,      \* utils.is_main_process() of the modelled rank
    pc,                   \* position of train.main
    output_dir_made,      \* utils.mkdir(args.output_dir) was called
    distributed_init,     \* utils.init_distributed_mode(args) was called
    lr_scheduler,         \* the scheduler object (kind "None" when it is None)
    lr_vec,               \* custom schedule vector
    model,                \* number of updates applied to the weights
    optimizer,            \* [step, lr] of the optimizer (lr of every param group)
    epoch,                \* loop variable of main
    next_eval_epoch,
    step_count,           \* local of train_one_epoch
    trained,              \* epochs train_one_epoch ran for, this run
    evaluated,            \* epoch argument of every evaluate call, this run
    optimizer_steps,      \* optimizer.step() calls, this run
    lr_adjusts,           \* adjust_learning_rate calls, this run
    saves,                \* checkpoint files written, this run
    model_pth,            \* output_dir/model_<e>.pth, e -> <<>> or <<checkpoint>>
    checkpoint_pth,       \* output_dir/checkpoint.pth, <<>> or <<checkpoint>>
    completed,            \* epochs whose loop body ran to its end, all runs
    given,                \* what this run was given: [start_epoch] --start-epoch,
                          \* [first] the --start-epoch of the first run,
                          \* [checkpoint] the content of the --resume file
    inference,            \* state of inference.main
    cache                 \* state of load_data on every rank and of the cache files

trainvars == <<args, is_main_process, pc, output_dir_made, distributed_init,
               lr_scheduler, lr_vec, model, optimizer, epoch, next_eval_epoch,
               step_count, trained, evaluated, optimizer_steps, lr_adjusts, saves,
               model_pth, checkpoint_pth, completed, given>>
vars == <<trainvars, inference, cache>>

\* ------------------------------------------------------------- helpers
RECURSIVE SortedSeq(_)
SortedSeq(S) ==
    IF S = {} THEN <<>>
    ELSE LET m == CHOOSE x \in S : \A y \in S : x <= y
         IN  <<m>> \o SortedSeq(S \ {m})

Range(s) == {s[i] : i \in 1..Len(s)}

\* Python's [x] * n: the empty list when n <= 0.
Repeat(x, n) == [i \in 1..(IF n > 0 THEN n ELSE 0) |-> x]

NoScheduler == [kind |-> "None", last_epoch |-> 0]

NoCheckpoint ==
    [model |-> 0, optimizer |-> [step |-> 0, lr |-> 0], lr_scheduler |-> NoScheduler,
     epoch |-> -1]

\* --------------------------------------------------- lr_vec_fcn (222-226)
RECURSIVE lr_vec_from(_, _, _)
lr_vec_from(values, milestones, n) ==
    IF n > Len(milestones) - 1 THEN <<>>
    ELSE Repeat(values[n], milestones[n + 1] - milestones[n])
         \o lr_vec_from(values, milestones, n + 1)

lr_vec_fcn_short(values, milestones) ==
    lr_vec_from(values, SubSeq(milestones, 1, Len(milestones) - 1), 1)

lr_vec_fcn(values, milestones) == lr_vec_from(values, milestones, 1)

\* ------------------------------------------------------- command lines
\* --custom-lr-milestones / --custom-lr-values: None (<<>>) or a list of
\* milestones 0 < m_1 < ... < m_m < epochs with the values v_i = i; --lr is 0.
Milestones(epochs) ==
    {SortedSeq(S) : S \in (SUBSET (1..(epochs - 1))) \ {{}}}

LrModes(epochs) ==
    {[optimizer |-> "sgd", milestones |-> <<>>],
     [optimizer |-> "lars", milestones |-> <<>>]}
    \cup {[optimizer |-> "sgd", milestones |-> m] : m \in Milestones(epochs)}

CommandLines ==
    {[epochs |-> e, epochs_between_evals |-> k, eval_offset_epochs |-> o,
      start_epoch |-> s, test_only |-> t, save_checkpoint |-> sc,
      output_dir |-> od, device |-> dv, optimizer |-> lm.optimizer,
      custom_lr_milestones |-> lm.milestones,
      custom_lr_values |-> [i \in 1..Len(lm.milestones) |-> i],
      lr |-> 0, num_train_steps |-> nts, resume |-> ""] :
        e \in 1..MaxEpochs, k \in 0..MaxBetween, o \in (-1)..MaxBetween,
        s \in 0..MaxStart, t \in BOOLEAN, sc \in BOOLEAN, od \in {"", "out"},
        dv \in {"hpu", "cpu"}, lm \in UNION {LrModes(x) : x \in 1..MaxEpochs},
        nts \in 1..(NumBatches + 1)}

ValidCommandLine(a) ==
    \A i \in 1..Len(a.custom_lr_milestones) : a.custom_lr_milestones[i] < a.epochs

\* Process-local state at the entry of main.
FreshProcess ==
    /\ pc = "check_args"
    /\ output_dir_made = FALSE
    /\ distributed_init = FALSE
    /\ lr_scheduler = NoScheduler
    /\ lr_vec = <<>>
    /\ model = 0
    /\ optimizer = [step |-> 0, lr |-> 0]
    /\ epoch = 0
    /\ next_eval_epoch = 0
    /\ step_count = 0
    /\ trained = <<>>
    /\ evaluated = <<>>
    /\ optimizer_steps = 0
    /\ lr_adjusts = 0
    /\ saves = 0

\* inference.main and load_data are not running.
InferenceIdle == [pc |-> "idle"]
CacheIdle == [pc |-> "idle"]

Init ==
    /\ args \in {a \in CommandLines : ValidCommandLine(a)}
    /\ is_main_process \in BOOLEAN
    /\ FreshProcess
    /\ model_pth = [e \in 0..(MaxEpochs - 1) |-> <<>>]
    /\ checkpoint_pth = <<>>
    /\ completed = <<>>
    /\ given = [start_epoch |-> args.start_epoch, first |-> args.start_epoch,
                checkpoint |-> NoCheckpoint]
    /\ inference = InferenceIdle
    /\ cache = CacheIdle

Others == UNCHANGED <<inference, cache>>

\* ------------------------------------------------- main, lines 241-246
ArgsRejectedOffsetOnly(a) == a.eval_offset_epochs < 0

ArgsRejected(a) == a.eval_offset_epochs < 0 \/ a.epochs_between_evals < 1

CheckArgsFail ==
    /\ pc = "check_args"
    /\ ArgsRejected(args)
    /\ pc' = "raised"
    /\ UNCHANGED <<args, is_main_process, output_dir_made, distributed_init,
                   lr_scheduler, lr_vec, model, optimizer, epoch, next_eval_epoch,
                   step_count, trained, evaluated, optimizer_steps, lr_adjusts,
                   saves, model_pth, checkpoint_pth, completed, given>>
    /\ Others

CheckArgsOk ==
    /\ pc = "check_args"
    /\ ~ArgsRejected(args)
    /\ pc' = "setup"
    /\ UNCHANGED <<args, is_main_process, output_dir_made, distributed_init,
                   lr_scheduler, lr_vec, model, optimizer, epoch, next_eval_epoch,
                   step_count, trained, evaluated, optimizer_steps, lr_adjusts,
                   saves, model_pth, checkpoint_pth, completed, given>>
    /\ Others

\* ------------------------------------------------- main, lines 274-423
\* mkdir of the output directory, distributed initialisation, model and
\* optimizer construction, and the choice of the learning-rate schedule.
Setup ==
    /\ pc = "setup"
    /\ output_dir_made' = (args.output_dir # "")
    /\ distributed_init' = TRUE
    /\ optimizer' = [step |-> 0, lr |-> args.lr]
    /\ IF args.optimizer = "lars"
       THEN /\ lr_scheduler' = [kind |-> "PolynomialDecayWithWarmup", last_epoch |-> 0]
            /\ lr_vec' = lr_vec
       ELSE IF args.custom_lr_values # <<>>
            THEN /\ lr_vec' = lr_vec_fcn(<<args.lr>> \o args.custom_lr_values,
                                         <<0>> \o args.custom_lr_milestones
                                               \o <<args.epochs>>)
                 /\ lr_scheduler' = NoScheduler
            ELSE /\ lr_scheduler' = [kind |-> "StepLR", last_epoch |-> 0]
                 /\ lr_vec' = lr_vec
    /\ pc' = "resume"
    /\ UNCHANGED <<args, is_main_process, model, epoch, next_eval_epoch,
                   step_count, trained, evaluated, optimizer_steps, lr_adjusts,
                   saves, model_pth, checkpoint_pth, completed, given>>
    /\ Others

\* ------------------------------------------------- main, lines 425-433
ResumeStartEpochSame(checkpoint) == checkpoint.epoch

ResumeStartEpoch(checkpoint) == checkpoint.epoch + 1

\* torch.load(args.resume): the file the path names, here output_dir/checkpoint.pth.
Resume ==
    /\ pc = "resume"
    /\ args.resume # ""
    /\ LET checkpoint == checkpoint_pth[1]
       IN  /\ model' = checkpoint.model
           /\ optimizer' = checkpoint.optimizer
           /\ lr_scheduler' = IF lr_scheduler # NoScheduler
                              THEN checkpoint.lr_scheduler
                              ELSE lr_scheduler
           /\ args' = [args EXCEPT !.start_epoch = ResumeStartEpoch(checkpoint)]
    /\ pc' = "test_only"
    /\ UNCHANGED <<is_main_process, output_dir_made, distributed_init, lr_vec,
                   epoch, next_eval_epoch, step_count, trained, evaluated,
                   optimizer_steps, lr_adjusts, saves, model_pth, checkpoint_pth,
                   completed, given>>
    /\ Others

NoResume ==
    /\ pc = "resume"
    /\ args.resume = ""
    /\ pc' = "test_only"
    /\ UNCHANGED <<args, is_main_process, output_dir_made, distributed_init,
                   lr_scheduler, lr_vec, model, optimizer, epoch, next_eval_epoch,
                   step_count, trained, evaluated, optimizer_steps, lr_adjusts,
                   saves, model_pth, checkpoint_pth, completed, given>>
    /\ Others

\* ------------------------------------------------- main, lines 435-438
\* evaluate is called without an epoch argument: its default is 0 (line 107).
TestOnlyEvaluateNoReturn ==
    /\ pc = "test_only"
    /\ args.test_only
    /\ evaluated' = Append(evaluated, 0)
    /\ epoch' = args.start_epoch
    /\ pc' = "loop"
    /\ UNCHANGED <<args, is_main_process, output_dir_made, distributed_init,
                   lr_scheduler, lr_vec, model, optimizer, next_eval_epoch,
                   step_count, trained, optimizer_steps, lr_adjusts,
                   saves, model_pth, checkpoint_pth, completed, given>>
    /\ Others

TestOnlyEvaluate ==
    /\ pc = "test_only"
    /\ args.test_only
    /\ evaluated' = Append(evaluated, 0)
    /\ pc' = "returned"
    /\ UNCHANGED <<args, is_main_process, output_dir_made, distributed_init,
                   lr_scheduler, lr_vec, model, optimizer, epoch, next_eval_epoch,
                   step_count, trained, optimizer_steps, lr_adjusts,
                   saves, model_pth, checkpoint_pth, completed, given>>
    /\ Others

\* ------------------------------------------------- main, lines 440-445
FirstEvalEpochNoStart(a) ==
    LET n == a.eval_offset_epochs - 1
    IN  IF n < 0 THEN n + a.epochs_between_evals ELSE n

FirstEvalEpoch(a) ==
    LET n == a.eval_offset_epochs - 1 + a.start_epoch
    IN  IF n < 0 THEN n + a.epochs_between_evals ELSE n

StartTraining ==
    /\ pc = "test_only"
    /\ ~args.test_only
    /\ next_eval_epoch' = FirstEvalEpoch(args)
    /\ epoch' = args.start_epoch
    /\ pc' = "loop"
    /\ UNCHANGED <<args, is_main_process, output_dir_made, distributed_init,
                   lr_scheduler, lr_vec, model, optimizer,
                   step_count, trained, evaluated, optimizer_steps, lr_adjusts,
                   saves, model_pth, checkpoint_pth, completed, given>>
    /\ Others

\* for epoch in range(args.start_epoch, args.epochs)
LoopNext ==
    /\ pc = "loop"
    /\ epoch < args.epochs
    /\ pc' = "adjust"
    /\ UNCHANGED <<args, is_main_process, output_dir_made, distributed_init,
                   lr_scheduler, lr_vec, model, optimizer, epoch, next_eval_epoch,
                   step_count, trained, evaluated, optimizer_steps, lr_adjusts,
                   saves, model_pth, checkpoint_pth, completed, given>>
    /\ Others

\* lines 491-496
LoopExit ==
    /\ pc = "loop"
    /\ epoch >= args.epochs
    /\ pc' = "returned"
    /\ UNCHANGED <<args, is_main_process, output_dir_made, distributed_init,
                   lr_scheduler, lr_vec, model, optimizer, epoch, next_eval_epoch,
                   step_count, trained, evaluated, optimizer_steps, lr_adjusts,
                   saves, model_pth, checkpoint_pth, completed, given>>
    /\ Others

\* ------------------------------ main 450-451, adjust_learning_rate 229-233
\* lr_vec[epoch] with Python's 0-based index; an index past the end raises.
AdjustLearningRate ==
    /\ pc = "adjust"
    /\ lr_scheduler = NoScheduler
    /\ IF epoch + 1 <= Len(lr_vec)
       THEN /\ optimizer' = [optimizer EXCEPT !.lr = lr_vec[epoch + 1]]
            /\ lr_adjusts' = lr_adjusts + 1
            /\ pc' = "train"
       ELSE /\ pc' = "raised"
            /\ UNCHANGED <<optimizer, lr_adjusts>>
    /\ step_count' = 0
    /\ UNCHANGED <<args, is_main_process, output_dir_made, distributed_init,
                   lr_scheduler, lr_vec, model, epoch, next_eval_epoch,
                   trained, evaluated, optimizer_steps,
                   saves, model_pth, checkpoint_pth, completed, given>>
    /\ Others

KeepLearningRate ==
    /\ pc = "adjust"
    /\ lr_scheduler # NoScheduler
    /\ step_count' = 0
    /\ pc' = "train"
    /\ UNCHANGED <<args, is_main_process, output_dir_made, distributed_init,
                   lr_scheduler, lr_vec, model, optimizer, epoch, next_eval_epoch,
                   trained, evaluated, optimizer_steps, lr_adjusts,
                   saves, model_pth, checkpoint_pth, completed, given>>
    /\ Others

\* ------------------------------------------ train_one_epoch, lines 47-101
BreakLoopAfter(count, a) == count > a.num_train_steps

BreakLoop(count, a) == count >= a.num_train_steps

\* One iteration over the data loader, which yields NumBatches batches.
TrainStep ==
    /\ pc = "train"
    /\ step_count < NumBatches
    /\ model' = model + 1
    /\ optimizer' = [optimizer EXCEPT !.step = @ + 1]
    /\ optimizer_steps' = optimizer_steps + 1
    /\ step_count' = step_count + 1
    /\ IF BreakLoop(step_count + 1, args)
       THEN /\ pc' = "train_end"
            /\ lr_scheduler' = lr_scheduler
       ELSE /\ pc' = "train"
            /\ lr_scheduler' = IF args.optimizer = "lars"
                               THEN [lr_scheduler EXCEPT !.last_epoch = @ + 1]
                               ELSE lr_scheduler
    /\ UNCHANGED <<args, is_main_process, output_dir_made, distributed_init,
                   lr_vec, epoch, next_eval_epoch, trained, evaluated, lr_adjusts,
                   saves, model_pth, checkpoint_pth, completed, given>>
    /\ Others

\* The data loader is exhausted.
TrainExhausted ==
    /\ pc = "train"
    /\ step_count >= NumBatches
    /\ pc' = "train_end"
    /\ UNCHANGED <<args, is_main_process, output_dir_made, distributed_init,
                   lr_scheduler, lr_vec, model, optimizer, epoch, next_eval_epoch,
                   step_count, trained, evaluated, optimizer_steps, lr_adjusts,
                   saves, model_pth, checkpoint_pth, completed, given>>
    /\ Others

\* lines 103-104
TrainEpochEnd ==
    /\ pc = "train_end"
    /\ lr_scheduler' = IF lr_scheduler # NoScheduler /\ args.optimizer = "sgd"
                       THEN [lr_scheduler EXCEPT !.last_epoch = @ + 1]
                       ELSE lr_scheduler
    /\ trained' = Append(trained, epoch)
    /\ pc' = "eval"
    /\ UNCHANGED <<args, is_main_process, output_dir_made, distributed_init,
                   lr_vec, model, optimizer, epoch, next_eval_epoch,
                   step_count, evaluated, optimizer_steps, lr_adjusts,
                   saves, model_pth, checkpoint_pth, completed, given>>
    /\ Others

\* ------------------------------------------------- main, lines 456-459
Evaluate ==
    /\ pc = "eval"
    /\ epoch = next_eval_epoch
    /\ evaluated' = Append(evaluated, epoch)
    /\ next_eval_epoch' = next_eval_epoch + args.epochs_between_evals
    /\ pc' = "save"
    /\ UNCHANGED <<args, is_main_process, output_dir_made, distributed_init,
                   lr_scheduler, lr_vec, model, optimizer, epoch,
                   step_count, trained, optimizer_steps, lr_adjusts,
                   saves, model_pth, checkpoint_pth, completed, given>>
    /\ Others

SkipEvaluate ==
    /\ pc = "eval"
    /\ epoch # next_eval_epoch
    /\ pc' = "save"
    /\ UNCHANGED <<args, is_main_process, output_dir_made, distributed_init,
                   lr_scheduler, lr_vec, model, optimizer, epoch, next_eval_epoch,
                   step_count, trained, evaluated, optimizer_steps, lr_adjusts,
                   saves, model_pth, checkpoint_pth, completed, given>>
    /\ Others

\* ------------------------------------------------- main, lines 461-489
\* utils.save_on_master(obj, path): the file after the call, and the number of
\* files it wrote.
save_on_master(obj, file) == IF is_main_process THEN <<obj>> ELSE file

Written == IF is_main_process THEN 1 ELSE 0

\* lines 463-468 and 478-483
CheckpointDict ==
    [model |-> model, optimizer |-> optimizer, lr_scheduler |-> lr_scheduler,
     epoch |-> epoch]

\* lines 470-475: the files after the hpu branch
SaveHpu ==
    [model_pth |-> [model_pth EXCEPT ![epoch] = save_on_master(CheckpointDict, @)],
     checkpoint_pth |-> save_on_master(CheckpointDict, checkpoint_pth),
     written |-> 2 * Written]

SaveOtherModelOnly ==
    [model_pth |-> [model_pth EXCEPT ![epoch] = save_on_master(CheckpointDict, @)],
     checkpoint_pth |-> checkpoint_pth,
     written |-> Written]

\* lines 484-489: the files after the else branch
SaveOther ==
    [model_pth |-> [model_pth EXCEPT ![epoch] = save_on_master(CheckpointDict, @)],
     checkpoint_pth |-> save_on_master(CheckpointDict, checkpoint_pth),
     written |-> 2 * Written]

SaveCheckpoint ==
    /\ pc = "save"
    /\ args.output_dir # "" /\ args.save_checkpoint
    /\ LET after == IF args.device = "hpu" THEN SaveHpu ELSE SaveOther
       IN  /\ model_pth' = after.model_pth
           /\ checkpoint_pth' = after.checkpoint_pth
           /\ saves' = saves + after.written
    /\ completed' = Append(completed, epoch)
    /\ epoch' = epoch + 1
    /\ pc' = "loop"
    /\ UNCHANGED <<args, is_main_process, output_dir_made, distributed_init,
                   lr_scheduler, lr_vec, model, optimizer, next_eval_epoch,
                   step_count, trained, evaluated, optimizer_steps, lr_adjusts,
                   given>>
    /\ Others

SkipSave ==
    /\ pc = "save"
    /\ ~(args.output_dir # "" /\ args.save_checkpoint)
    /\ completed' = Append(completed, epoch)
    /\ epoch' = epoch + 1
    /\ pc' = "loop"
    /\ UNCHANGED <<args, is_main_process, output_dir_made, distributed_init,
                   lr_scheduler, lr_vec, model, optimizer, next_eval_epoch,
                   step_count, trained, evaluated, optimizer_steps, lr_adjusts,
                   saves, model_pth, checkpoint_pth, given>>
    /\ Others

\* --------------------------------------------- the job around main
\* The process is stopped during the epoch loop: everything but the files is lost.
Interrupt ==
    /\ pc \in {"loop", "adjust", "train", "train_end", "eval", "save"}
    /\ pc' = "killed"
    /\ output_dir_made' = FALSE
    /\ distributed_init' = FALSE
    /\ lr_scheduler' = NoScheduler
    /\ lr_vec' = <<>>
    /\ model' = 0
    /\ optimizer' = [step |-> 0, lr |-> 0]
    /\ epoch' = 0
    /\ next_eval_epoch' = 0
    /\ step_count' = 0
    /\ trained' = <<>>
    /\ evaluated' = <<>>
    /\ optimizer_steps' = 0
    /\ lr_adjusts' = 0
    /\ saves' = 0
    /\ UNCHANGED <<args, is_main_process, model_pth, checkpoint_pth, completed,
                   given>>
    /\ Others

\* The same command line is run again with --resume output_dir/checkpoint.pth,
\* any --start-epoch, and with or without --test-only.
Rerun ==
    /\ pc \in {"killed", "returned"}
    /\ checkpoint_pth # <<>>
    /\ \E s \in 0..MaxStart, t \in BOOLEAN :
          /\ args' = [args EXCEPT !.resume = "checkpoint.pth",
                                  !.start_epoch = s, !.test_only = t]
          /\ given' = [given EXCEPT !.start_epoch = s,
                                     !.checkpoint = checkpoint_pth[1]]
    /\ pc' = "check_args"
    /\ output_dir_made' = FALSE
    /\ distributed_init' = FALSE
    /\ lr_scheduler' = NoScheduler
    /\ lr_vec' = <<>>
    /\ model' = 0
    /\ optimizer' = [step |-> 0, lr |-> 0]
    /\ epoch' = 0
    /\ next_eval_epoch' = 0
    /\ step_count' = 0
    /\ trained' = <<>>
    /\ evaluated' = <<>>
    /\ optimizer_steps' = 0
    /\ lr_adjusts' = 0
    /\ saves' = 0
    /\ UNCHANGED <<is_main_process, model_pth, checkpoint_pth, completed>>
    /\ Others

Next ==
    \/ CheckArgsFail
    \/ CheckArgsOk
    \/ Setup
    \/ Resume
    \/ NoResume
    \/ TestOnlyEvaluate
    \/ StartTraining
    \/ LoopNext
    \/ LoopExit
    \/ AdjustLearningRate
    \/ KeepLearningRate
    \/ TrainStep
    \/ TrainExhausted
    \/ TrainEpochEnd
    \/ Evaluate
    \/ SkipEvaluate
    \/ SaveCheckpoint
    \/ SkipSave
    \/ Interrupt
    \/ Rerun

Spec == Init /\ [][Next]_vars

\* ====================================================== inference.py main
TrainIdle ==
    /\ args = [resume |-> ""]
    /\ is_main_process = TRUE
    /\ pc = "idle"
    /\ output_dir_made = FALSE
    /\ distributed_init = FALSE
    /\ lr_scheduler = NoScheduler
    /\ lr_vec = <<>>
    /\ model = 0
    /\ optimizer = [step |-> 0, lr |-> 0]
    /\ epoch = 0
    /\ next_eval_epoch = 0
    /\ step_count = 0
    /\ trained = <<>>
    /\ evaluated = <<>>
    /\ optimizer_steps = 0
    /\ lr_adjusts = 0
    /\ saves = 0
    /\ model_pth = <<>>
    /\ checkpoint_pth = <<>>
    /\ completed = <<>>
    /\ given = NoCheckpoint

\* The paths --checkpoint_path may name: the empty string, a path nothing
\* exists at, a directory, a checkpoint file, a file without a 'model' entry.
CheckpointPaths == {"", "missing.pt", "ckpt_dir", "ckpt.pt", "other.pt"}

\* os.path.isfile
isfile(path) == path \in {"ckpt.pt", "other.pt"}

ModelTypes == {"HPUModel", "HPUJITModel", "HPUGraphModel"}

InitInference ==
    /\ TrainIdle
    /\ cache = CacheIdle
    /\ inference \in
         [pc : {"start"}, model_type : ModelTypes, ckpt_pth : CheckpointPaths,
          run_benchmarks : BOOLEAN, run_accuracy : BOOLEAN,
          pretrained : {"unset"}, torch_loads : {0}, state_loads : {0},
          benchmarks : {0}, accuracies : {0}]

InferenceOnly == UNCHANGED <<trainvars, cache>>

\* main, lines 233-240
GetDataset ==
    /\ inference.pc = "start"
    /\ inference' = [inference EXCEPT !.pc = "build"]
    /\ InferenceOnly

\* main, lines 242-245: model_def(pretrained=pretrained)
BuildModel ==
    /\ inference.pc = "build"
    /\ inference' = [inference EXCEPT
                        !.pretrained = IF isfile(inference.ckpt_pth)
                                       THEN "False" ELSE "True",
                        !.pc = "init"]
    /\ InferenceOnly

\* HPUModel.__init__, lines 86-88, reached from every model type (153, 170)
\* with parameters_path = ckpt_pth: torch.load raises unless the path names a
\* file, load_state_dict(checkpoint['model']) raises without a 'model' entry.
LoadParameters ==
    /\ inference.pc = "init"
    /\ inference.ckpt_pth # ""
    /\ inference' =
         IF ~isfile(inference.ckpt_pth)
         THEN [inference EXCEPT !.torch_loads = @ + 1, !.pc = "raised"]
         ELSE IF inference.ckpt_pth = "other.pt"
         THEN [inference EXCEPT !.torch_loads = @ + 1, !.pc = "raised"]
         ELSE [inference EXCEPT !.torch_loads = @ + 1, !.state_loads = @ + 1,
                                !.pc = "ready"]
    /\ InferenceOnly

SkipParameters ==
    /\ inference.pc = "init"
    /\ inference.ckpt_pth = ""
    /\ inference' = [inference EXCEPT !.pc = "ready"]
    /\ InferenceOnly

\* lines 90-95 (warm up), 154-160 (trace), 171-183 (graph capture)
FinishInit ==
    /\ inference.pc = "ready"
    /\ inference' = [inference EXCEPT !.pc = "benchmark"]
    /\ InferenceOnly

\* main, lines 247-249
Benchmark ==
    /\ inference.pc = "benchmark"
    /\ inference' = [inference EXCEPT
                        !.benchmarks = IF inference.run_benchmarks THEN @ + 1 ELSE @,
                        !.pc = "accuracy"]
    /\ InferenceOnly

\* main, lines 251-253
Accuracy ==
    /\ inference.pc = "accuracy"
    /\ inference' = [inference EXCEPT
                        !.accuracies = IF inference.run_accuracy THEN @ + 1 ELSE @,
                        !.pc = "returned"]
    /\ InferenceOnly

NextInference ==
    \/ GetDataset
    \/ BuildModel
    \/ LoadParameters
    \/ SkipParameters
    \/ FinishInit
    \/ Benchmark
    \/ Accuracy

SpecInference == InitInference /\ [][NextInference]_vars

\* ===================================================== train.py load_data
\* _get_cache_path, lines 151-156: the first 10 hex digits of the SHA-1 of
\* the directory path name the file; distinct digests for the two directories.
sha1_10(filepath) == IF filepath = "data/train" THEN "digest_a" ELSE "digest_b"

_get_cache_path(filepath) ==
    <<"~/.torch/vision/datasets/imagefolder", sha1_10(filepath), ".pt">>

traindir == "data/train"
valdir == "data/val"

Ranks == 0..(NumRanks - 1)

Dir(phase) == IF phase = "train" THEN traindir ELSE valdir

\* cache.files : cache path -> "absent", "partial" (torch.save has created the
\* file and not finished writing it) or "complete".
InitCache ==
    /\ TrainIdle
    /\ inference = InferenceIdle
    /\ cache \in
         [cache_dataset : BOOLEAN,
          files : [{_get_cache_path(traindir), _get_cache_path(valdir)}
                     -> {"absent", "complete"}],
          at : {[r \in Ranks |-> [phase |-> "train", step |-> "check"]]},
          dataset : {[r \in Ranks |-> [train |-> "none", val |-> "none"]]}]

CacheOnly == UNCHANGED <<trainvars, inference>>

\* The step after the train part is the validation part, then the samplers.
After(phase) ==
    IF phase = "train" THEN [phase |-> "val", step |-> "check"]
    ELSE [phase |-> "samplers", step |-> "create"]

\* lines 167-168 and 191-192: os.path.exists(cache_path)
CheckCache(r) ==
    LET phase == cache.at[r].phase
    IN  /\ cache.at[r].step = "check"
        /\ cache' = [cache EXCEPT !.at[r].step =
                        IF cache.cache_dataset
                           /\ cache.files[_get_cache_path(Dir(phase))] # "absent"
                        THEN "load" ELSE "build"]
        /\ CacheOnly

\* lines 171 and 195: torch.load(cache_path). Reading a file that is still
\* being written either raises or goes on with whatever was read.
LoadCache(r) ==
    LET phase == cache.at[r].phase
        file == cache.files[_get_cache_path(Dir(phase))]
    IN  /\ cache.at[r].step = "load"
        /\ IF file = "complete"
           THEN cache' = [cache EXCEPT !.dataset[r][phase] = "loaded",
                                       !.at[r] = After(phase)]
           ELSE \E next \in {After(phase), [phase |-> "raised", step |-> "none"]} :
                   cache' = [cache EXCEPT !.dataset[r][phase] = "loaded_incomplete",
                                          !.at[r] = next]
        /\ CacheOnly

\* lines 176-184 and 198-206: torchvision.datasets.ImageFolder
BuildDataset(r) ==
    LET phase == cache.at[r].phase
    IN  /\ cache.at[r].step = "build"
        /\ cache' = [cache EXCEPT !.dataset[r][phase] = "built",
                                  !.at[r] = IF cache.cache_dataset
                                            THEN [phase |-> phase, step |-> "save"]
                                            ELSE After(phase)]
        /\ CacheOnly

\* lines 185-187 and 207-209: utils.save_on_master starts torch.save on rank 0
\* (the file is created) and does nothing on the other ranks.
SaveCache(r) ==
    LET phase == cache.at[r].phase
    IN  /\ cache.at[r].step = "save"
        /\ cache' = IF r = 0
                    THEN [cache EXCEPT
                            !.files[_get_cache_path(Dir(phase))] = "partial",
                            !.at[r].step = "write"]
                    ELSE [cache EXCEPT !.at[r] = After(phase)]
        /\ CacheOnly

\* torch.save returns: the file is complete.
FinishSave(r) ==
    LET phase == cache.at[r].phase
    IN  /\ cache.at[r].step = "write"
        /\ cache' = [cache EXCEPT
                        !.files[_get_cache_path(Dir(phase))] = "complete",
                        !.at[r] = After(phase)]
        /\ CacheOnly

\* lines 211-219
CreateSamplers(r) ==
    /\ cache.at[r].phase = "samplers"
    /\ cache' = [cache EXCEPT !.at[r] = [phase |-> "returned", step |-> "none"]]
    /\ CacheOnly

NextCache ==
    \/ \E r \in Ranks : CheckCache(r)
    \/ \E r \in Ranks : LoadCache(r)
    \/ \E r \in Ranks : BuildDataset(r)
    \/ \E r \in Ranks : SaveCache(r)
    \/ \E r \in Ranks : FinishSave(r)
    \/ \E r \in Ranks : CreateSamplers(r)

SpecCache == InitCache /\ [][NextCache]_vars

\* =================================================================== claims
InLoop == pc \in {"loop", "adjust", "train", "train_end", "eval", "save"}
InBody == pc \in {"adjust", "train", "train_end", "eval", "save"}

\* C1: with eval_offset_epochs < 0 or epochs_between_evals < 1 main only fails
\* its assertion: no output directory is made, no distributed initialisation
\* happens, nothing is trained or evaluated and no checkpoint is written.
C1_RejectsInvalidArgs ==
    (args.eval_offset_epochs < 0 \/ args.epochs_between_evals < 1) =>
        /\ pc \in {"check_args", "raised"}
        /\ ~output_dir_made
        /\ ~distributed_init
        /\ trained = <<>> /\ optimizer_steps = 0
        /\ evaluated = <<>>
        /\ saves = 0 /\ checkpoint_pth = <<>>
        /\ \A e \in DOMAIN model_pth : model_pth[e] = <<>>

C1_Witness ==
    /\ pc = "raised"
    /\ args.epochs_between_evals < 1 /\ args.eval_offset_epochs >= 0
    /\ args.output_dir # "" /\ args.save_checkpoint

\* C2: with 0 <= eval_offset_epochs <= epochs_between_evals = k, every window
\* of k consecutive epochs trained by a run holds exactly one evaluated epoch.
C2_EvalEveryWindow ==
    LET k == args.epochs_between_evals
    IN  (/\ pc = "returned" /\ ~args.test_only
         /\ k >= 1 /\ 0 <= args.eval_offset_epochs /\ args.eval_offset_epochs <= k)
        => \A i \in 1..(Len(trained) - k + 1) :
              Cardinality({j \in i..(i + k - 1) : trained[j] \in Range(evaluated)}) = 1

\* C3: with eval_offset_epochs = o >= 1 and start epoch s, evaluate is called
\* right after the epochs s+o-1, s+o-1+k, s+o-1+2k, ... and after no other.
C3_EvalOffset ==
    LET k == args.epochs_between_evals
        f == args.start_epoch + args.eval_offset_epochs - 1
        passed == {trained[i] : i \in 1..Len(trained)}
                  \ (IF pc = "eval" THEN {epoch} ELSE {})
    IN  (/\ ~args.test_only /\ args.eval_offset_epochs >= 1 /\ k >= 1
         /\ (InLoop \/ pc = "returned"))
        => evaluated = SortedSeq({e \in passed : e >= f /\ (e - f) % k = 0})

C3_Witness ==
    /\ ~args.test_only
    /\ args.eval_offset_epochs = 2
    /\ evaluated = <<1, 2>>

\* C4: with output_dir and --save-checkpoint, the master writes after every
\* completed epoch e one checkpoint (model, optimizer, lr_scheduler, epoch e) to
\* model_e.pth and checkpoint.pth, whatever the device; otherwise nothing is
\* ever written.
C4_Checkpoints ==
    LET enabled == args.output_dir # "" /\ args.save_checkpoint
    IN  /\ ~(enabled /\ is_main_process) =>
              /\ saves = 0 /\ checkpoint_pth = <<>>
              /\ \A e \in DOMAIN model_pth : model_pth[e] = <<>>
        /\ (enabled /\ is_main_process /\ ~args.test_only
                    /\ (InLoop \/ pc = "returned")) =>
              /\ saves = 2 * (epoch - args.start_epoch)
              /\ \A i \in 1..Len(completed) :
                    /\ model_pth[completed[i]] # <<>>
                    /\ model_pth[completed[i]][1].epoch = completed[i]
              /\ completed # <<>> =>
                    /\ checkpoint_pth # <<>>
                    /\ checkpoint_pth[1].epoch = completed[Len(completed)]
                    /\ checkpoint_pth = model_pth[completed[Len(completed)]]
              /\ (pc = "loop" /\ epoch > args.start_epoch) =>
                    checkpoint_pth = <<[model |-> model, optimizer |-> optimizer,
                                        lr_scheduler |-> lr_scheduler,
                                        epoch |-> epoch - 1]>>
              /\ (InBody /\ checkpoint_pth # <<>>) =>
                    checkpoint_pth[1].epoch = epoch - 1

C4_Witness ==
    /\ args.output_dir # "" /\ args.save_checkpoint /\ is_main_process
    /\ args.device = "cpu"
    /\ pc = "loop" /\ saves = 4
    /\ evaluated # <<>>

\* C5: a run resumed from a checkpoint of epoch e restores model, optimizer
\* and lr_scheduler and trains exactly e+1 .. epochs-1 in order, whatever
\* --start-epoch says; with its earlier runs every epoch 0 .. epochs-1 is
\* completed exactly once; from the last epoch's checkpoint it trains nothing.
C5_Resume ==
    LET e == given.checkpoint.epoch
    IN  (args.resume # "" /\ (pc = "test_only" \/ InLoop \/ pc = "returned")) =>
           /\ pc = "test_only" =>
                 /\ model = given.checkpoint.model
                 /\ optimizer = given.checkpoint.optimizer
                 /\ lr_scheduler # NoScheduler =>
                        lr_scheduler = given.checkpoint.lr_scheduler
           /\ ~args.test_only =>
                 /\ \A i \in 1..Len(trained) : trained[i] = e + i
                 /\ Len(trained) <= args.epochs - 1 - e
                 /\ pc = "returned" => Len(trained) = args.epochs - 1 - e
                 /\ (pc = "returned" /\ given.first = 0) =>
                        completed = [i \in 1..args.epochs |-> i - 1]

C5_Witness ==
    /\ args.resume # "" /\ ~args.test_only
    /\ pc = "returned"
    /\ given.first = 0
    /\ given.start_epoch # given.checkpoint.epoch + 1
    /\ Len(trained) = 2

\* C6: with --test-only main calls evaluate once, after loading the --resume
\* checkpoint, and returns: nothing is trained, no learning rate is adjusted
\* and no checkpoint is written.
C6_TestOnly ==
    args.test_only =>
        /\ trained = <<>> /\ optimizer_steps = 0
        /\ lr_adjusts = 0
        /\ saves = 0
        /\ Len(evaluated) <= 1
        /\ (pc = "returned") <=> (Len(evaluated) = 1)
        /\ (pc = "returned" /\ args.resume # "") => model = given.checkpoint.model

C6_Witness ==
    /\ args.test_only /\ pc = "returned"
    /\ args.resume # "" /\ model > 0
    /\ args.output_dir # "" /\ args.save_checkpoint /\ is_main_process

\* C7 as claimed: a run performs at most num_train_steps optimizer steps in all.
C7_TotalStepsAtMostT == optimizer_steps <= args.num_train_steps

\* C7 as amended: every call of train_one_epoch performs at most
\* num_train_steps optimizer steps, so a run performs at most num_train_steps
\* times the number of epochs it trains.
C7_StepsPerEpoch ==
    /\ step_count <= args.num_train_steps
    /\ pc \notin {"train", "train_end"} =>
          optimizer_steps <= args.num_train_steps * Len(trained)
    /\ pc \in {"train", "train_end"} =>
          optimizer_steps <= args.num_train_steps * Len(trained) + step_count

C7_Witness ==
    /\ args.num_train_steps = 1
    /\ Len(trained) = 2
    /\ optimizer_steps = 2

C9_MissingCheckpointFallsBack ==
    /\ ~isfile(inference.ckpt_pth) =>
          /\ inference.torch_loads = 0
          /\ inference.pc # "raised"
          /\ inference.pc \notin {"start", "build"} => inference.pretrained = "True"
    /\ inference.ckpt_pth = "ckpt.pt" =>
          /\ inference.pc \notin {"start", "build"} => inference.pretrained = "False"
          /\ inference.pc \in {"ready", "benchmark", "accuracy", "returned"} =>
                inference.state_loads = 1

\* C10: with --cache-dataset on concurrent ranks, every rank either loads a
\* completely written cache file or builds the dataset itself, and the train
\* and validation directories have different cache paths.
C10_NoIncompleteLoad ==
    /\ _get_cache_path(traindir) # _get_cache_path(valdir)
    /\ \A r \in Ranks :
          /\ cache.dataset[r].train \in {"none", "loaded", "built"}
          /\ cache.dataset[r].val \in {"none", "loaded", "built"}
          /\ cache.at[r].phase # "raised"
====
